---- MODULE Spec2Model ----
(***************************************************************************)
(* Document versioning, content hashing, audit trail and tag replacement   *)
(* of app.py, as a state machine.                                          *)
(*                                                                         *)
(* The SQLite database is the record db (the committed tables).  A         *)
(* connection that has executed an INSERT/UPDATE/DELETE holds the single   *)
(* database write lock (wlock) and works on a private copy (txn) until     *)
(* the `with get_db() as conn` block ends: commit on normal exit, rollback *)
(* when an exception leaves the block.  Readers see db.  A statement that  *)
(* needs the write lock while another connection holds it waits, and is    *)
(* raised as OperationalError when the busy timeout expires.               *)
(*                                                                         *)
(* Requests are served by concurrent workers; every statement of a handler *)
(* that touches the database or the upload directory is one step.          *)
(***************************************************************************)
EXTENDS Integers, Sequences, FiniteSets, TLC

\* ------------------------------------------------------------------ bounds

MaxRequests == 2          \* requests of any kind started in one behaviour
MaxUploads == 2           \* uploads started in a behaviour of uploads only
MaxTagCalls == 3          \* calls started in a behaviour of upsert_tags only
MaxClock == 1             \* now_ts() takes the values 0..MaxClock
MaxListRequests == 3      \* requests started in a behaviour of uploads and listings

Workers == {1, 2}         \* request threads of the server

\* ------------------------------------------------------------------ inputs

None == 0                 \* SQL NULL / Python None for an integer column

\* Text is a sequence of one-character strings.
Whitespace == {" "}

TagLists ==
  { << <<"A">>, <<"B">> >>,
    << <<"X">> >>,
    << <<" ", "a", " ">>, <<>>, <<"A">>, <<"A", " ">> >> }

RawFilenames == {"", "a.pdf", "../a.pdf"}
Payloads == { <<1>>, <<2>> }
VendorNames == {"acme", "globex"}
FormTitle == "t1"

\* ------------------------------------------------------------ pure helpers

RECURSIVE lstrip(_)
lstrip(s) ==
  IF s # <<>> /\ Head(s) \in Whitespace THEN lstrip(Tail(s)) ELSE s

RECURSIVE rstrip(_)
rstrip(s) ==
  IF s # <<>> /\ s[Len(s)] \in Whitespace
  THEN rstrip(SubSeq(s, 1, Len(s) - 1))
  ELSE s

\* str.strip()
strip(s) == rstrip(lstrip(s))

\* werkzeug's secure_filename on the file names of RawFilenames: path
\* separators and leading dots are removed.
secure_filename(f) == IF f = "../a.pdf" THEN "a.pdf" ELSE f

\* hashlib.sha256(...).hexdigest(), as a digest of 16 bits that is injective
\* on the contents a file of this model can have.
RECURSIVE sha256(_)
sha256(bytes) ==
  IF bytes = <<>> THEN 7
  ELSE (31 * sha256(SubSeq(bytes, 1, Len(bytes) - 1)) + bytes[Len(bytes)]) % 65536

SetMax(S) == CHOOSE x \in S : \A y \in S : y <= x

\* f"{contract_id}_{version}_{filename}": the two integers are delimited by
\* the first two underscores, so the name determines the three parts.
stored_name(contract_id, version, filename) == <<contract_id, version, filename>>

\* ------------------------------------------------------------------- state

VARIABLES
  db,       \* committed tables
  txn,      \* the write-lock holder's uncommitted copy of the tables
  wlock,    \* connection holding the database write lock, or NoConn
  files,    \* upload directory: storage name -> bytes
  clock,    \* last value of now_ts()
  req,      \* per worker: the request it serves, its position, and (history)
            \* the business rows and audit events it has committed
  stats     \* requests still to come; history: handler requests completed,
            \* uploads completed per contract

vars == <<db, txn, wlock, files, clock, req, stats>>

NoConn == <<0, "none">>
Conn(w, owner) == <<w, owner>>

InitContracts == {1, 2}

Idle ==
  [op |-> "idle", pc |-> "idle", contract_id |-> None, filename |-> "",
   data |-> <<>>, version |-> 0, sha256 |-> 0, tags |-> <<>>, i |-> 0,
   name |-> "", vendor_id |-> None, err |-> "", old |-> {},
   concurrent |-> FALSE, rows |-> 0, audits |-> 0, listing |-> <<>>]

InitWith(requests) ==
  /\ db = [contracts |-> [c \in InitContracts |-> [title |-> "t0"]],
           vendors |-> << [name |-> "acme"] >>,
           documents |-> <<>>,
           audit_events |-> <<>>,
           tags |-> <<>>,
           contract_tags |-> {}]
  /\ txn = db
  /\ wlock = NoConn
  /\ files = [n \in {} |-> <<>>]
  /\ clock = 0
  /\ req = [w \in Workers |-> Idle]
  /\ stats = [budget |-> requests, completed |-> 0,
              uploads |-> [c \in InitContracts |-> 0]]

Init == InitWith(MaxRequests)

\* ----------------------------------------------------------------- queries

Range(s) == {s[k] : k \in 1..Len(s)}

\* Mutant of ContractExists: the lookup of the contract is not checked.
ContractExistsAlways(d, contract_id) == TRUE

\* get_contract(contract_id) is not None
ContractExists(d, contract_id) == contract_id \in DOMAIN d.contracts

\* SELECT * FROM documents WHERE contract_id = ?
DocsOf(d, contract_id) ==
  {k \in 1..Len(d.documents) : d.documents[k].contract_id = contract_id}

VersionsOf(d, contract_id) ==
  {d.documents[k].version : k \in DocsOf(d, contract_id)}

\* SELECT COALESCE(MAX(version), 0) + 1 FROM documents WHERE contract_id = ?
NextVersion(d, contract_id) ==
  IF DocsOf(d, contract_id) = {} THEN 1
  ELSE SetMax(VersionsOf(d, contract_id)) + 1

\* get_contract_tags: the names of the tags joined to the contract
get_contract_tags(d, contract_id) ==
  {d.tags[t] : t \in {x[2] : x \in {y \in d.contract_tags : y[1] = contract_id}}}

\* SELECT id FROM tags WHERE name = ?
TagId(d, name) == CHOOSE t \in 1..Len(d.tags) : d.tags[t] = name

\* ------------------------------------------------------ connection handling

InFlight(w) == req[w].pc \notin {"idle", "done", "failed", "rejected"}

\* A connection can start writing only while no connection holds the lock.
CanWrite == wlock = NoConn

\* Mutant of Begin: a connection in autocommit mode, every statement is
\* committed as it is executed.
BeginAutocommit(w, owner, t) ==
  /\ txn' = t
  /\ wlock' = NoConn
  /\ db' = t

\* get_db(): sqlite3.connect with the default isolation level.  A statement
\* that writes opens a transaction if none is open: the connection holds
\* the write lock and its writes stay private until the block ends.
Begin(w, owner, t) ==
  /\ txn' = t
  /\ wlock' = Conn(w, owner)
  /\ db' = db

\* `with get_db() as conn` left normally: the connection's writes are committed.
CommitTxn(d, t) == t

\* Mutant of Rollback: the exception leaves the writes in place.
RollbackKeepsWrites(d, t) == t

\* `with get_db() as conn` left by an exception: the writes are rolled back.
Rollback(d, t) == d

Goto(w, pc) == [req EXCEPT ![w].pc = pc]

\* now_ts(): seconds resolution, never decreasing
Now == {t \in clock..MaxClock : t <= clock + 1}

\* ----------------------------------------------------------- request start

\* A request is dispatched to the first idle worker.
MayStart(w) ==
  /\ req[w].pc = "idle"
  /\ \A v \in Workers : v < w => req[v].pc # "idle"
  /\ stats.budget > 0

Started(w) ==
  stats' = [stats EXCEPT !.budget = @ - 1]

OthersInFlight(w) == \E v \in Workers \ {w} : InFlight(v)

ContractIdInputs == InitContracts \cup {SetMax(InitContracts) + 1}

\* POST /contracts/<id>/documents/new up to the version query
DocumentNew(w) ==
  /\ MayStart(w)
  /\ \E c \in ContractIdInputs, f \in RawFilenames, bytes \in Payloads :
       req' = [req EXCEPT ![w] =
                 IF ~ContractExists(db, c) \/ f = ""
                 THEN [Idle EXCEPT !.op = "document_new", !.contract_id = c,
                                   !.pc = "rejected"]
                 ELSE [Idle EXCEPT !.op = "document_new", !.contract_id = c,
                                   !.filename = secure_filename(f),
                                   !.data = bytes,
                                   !.pc = "read_version"]]
  /\ Started(w)
  /\ UNCHANGED <<db, txn, wlock, files, clock>>

\* Mutant of UploadNextPc: the row is inserted before the file is saved.
UploadNextPcInsertFirst(pc) ==
  CASE pc = "read_version" -> "insert_document"
    [] pc = "insert_document" -> "commit_document"
    [] pc = "commit_document" -> "save_open"
    [] pc = "save_open" -> "save_write"
    [] pc = "save_write" -> "hash"
    [] pc = "hash" -> "record_audit"

\* Mutant of UploadNextPc: the row is inserted before the file is hashed.
UploadNextPcHashAfterInsert(pc) ==
  CASE pc = "read_version" -> "save_open"
    [] pc = "save_open" -> "save_write"
    [] pc = "save_write" -> "insert_document"
    [] pc = "insert_document" -> "commit_document"
    [] pc = "commit_document" -> "hash"
    [] pc = "hash" -> "record_audit"

\* Mutant of UploadNextPc: record_audit is called before the INSERT.
UploadNextPcAuditFirst(pc) ==
  CASE pc = "read_version" -> "save_open"
    [] pc = "save_open" -> "save_write"
    [] pc = "save_write" -> "hash"
    [] pc = "hash" -> "record_audit"
    [] pc = "insert_document" -> "commit_document"
    [] pc = "commit_document" -> "record_audit"

\* the order of the statements of document_new after the checks
UploadNextPc(pc) ==
  CASE pc = "read_version" -> "save_open"
    [] pc = "save_open" -> "save_write"
    [] pc = "save_write" -> "hash"
    [] pc = "hash" -> "insert_document"
    [] pc = "insert_document" -> "commit_document"
    [] pc = "commit_document" -> "record_audit"

\* the version query, in a connection of its own
ReadVersion(w) ==
  /\ req[w].pc = "read_version"
  /\ req' = [req EXCEPT ![w].version = NextVersion(db, req[w].contract_id),
                        ![w].pc = UploadNextPc("read_version")]
  /\ UNCHANGED <<db, txn, wlock, files, clock, stats>>

StorageName(w) == stored_name(req[w].contract_id, req[w].version, req[w].filename)

WriteFile(fs, name, bytes) ==
  [n \in DOMAIN fs \cup {name} |-> IF n = name THEN bytes ELSE fs[n]]

\* file.save(storage_path): the file is opened for writing (created or
\* truncated) ...
SaveOpen(w) ==
  /\ req[w].pc = "save_open"
  /\ files' = WriteFile(files, StorageName(w), <<>>)
  /\ req' = Goto(w, UploadNextPc("save_open"))
  /\ UNCHANGED <<db, txn, wlock, clock, stats>>

\* ... and the uploaded bytes are copied into it
SaveWrite(w) ==
  /\ req[w].pc = "save_write"
  /\ files' = WriteFile(files, StorageName(w), req[w].data)
  /\ req' = Goto(w, UploadNextPc("save_write"))
  /\ UNCHANGED <<db, txn, wlock, clock, stats>>

\* sha256 = hashlib.sha256(storage_path.read_bytes()).hexdigest()
HashFile(w) ==
  /\ req[w].pc = "hash"
  /\ req' = [req EXCEPT ![w].sha256 = sha256(files[StorageName(w)]),
                        ![w].pc = UploadNextPc("hash")]
  /\ UNCHANGED <<db, txn, wlock, files, clock, stats>>

DocumentRow(d, w) ==
  [id |-> Len(d.documents) + 1,
   contract_id |-> req[w].contract_id,
   filename |-> req[w].filename,
   storage_path |-> StorageName(w),
   version |-> req[w].version,
   sha256 |-> req[w].sha256]

\* INSERT INTO documents (...)
InsertDocument(w) ==
  /\ req[w].pc = "insert_document"
  /\ CanWrite
  /\ Begin(w, "handler", [db EXCEPT !.documents = Append(@, DocumentRow(db, w))])
  /\ req' = Goto(w, UploadNextPc("insert_document"))
  /\ UNCHANGED <<files, clock, stats>>

\* ------------------------------------------------------------ record_audit

AuditArgs(w) ==
  CASE req[w].op = "document_new" ->
         [contract_id |-> req[w].contract_id, action |-> "Uploaded document",
          details |-> [kind |-> "Document", name |-> req[w].filename,
                       n |-> req[w].version]]
    [] req[w].op = "contract_new" ->
         [contract_id |-> req[w].contract_id, action |-> "Created contract",
          details |-> [kind |-> "", name |-> "", n |-> 0]]
    [] req[w].op = "contract_edit" ->
         [contract_id |-> req[w].contract_id, action |-> "Updated contract",
          details |-> [kind |-> "", name |-> "", n |-> 0]]
    [] req[w].op = "vendor_new" ->
         [contract_id |-> None, action |-> "Created vendor",
          details |-> [kind |-> "Vendor", name |-> "", n |-> req[w].vendor_id]]
    [] req[w].op = "vendor_edit" ->
         [contract_id |-> None, action |-> "Updated vendor",
          details |-> [kind |-> "Vendor", name |-> "", n |-> req[w].vendor_id]]

AuditRow(d, a, t) ==
  [id |-> Len(d.audit_events) + 1, contract_id |-> a.contract_id,
   action |-> a.action, actor |-> "system", created_at |-> t,
   details |-> a.details]

\* Mutant of InsertAudit: the newest event is overwritten.
InsertAuditReplacing(events, row) ==
  IF events = <<>> THEN <<row>> ELSE [events EXCEPT ![Len(events)] = row]

\* INSERT INTO audit_events: the only statement on that table that writes
InsertAudit(events, row) == Append(events, row)

\* record_audit(...): INSERT INTO audit_events in a connection of its own
RecordAudit(w) ==
  /\ req[w].pc = "record_audit"
  /\ CanWrite
  /\ \E t \in Now :
       /\ clock' = t
       /\ Begin(w, "record_audit",
                [db EXCEPT !.audit_events =
                   InsertAudit(@, AuditRow(db, AuditArgs(w), t))])
  /\ req' = Goto(w, "commit_audit")
  /\ UNCHANGED <<files, stats>>

\* ------------------------------------------- end of a `with get_db()` block

CommitPcs ==
  {"commit_document", "commit_vendor", "commit_tags", "commit_contract",
   "commit_audit"}

\* Mutant of AfterCommit: vendor_edit returns without record_audit.
AfterCommitSkipsAudit(w) ==
  CASE req[w].pc = "commit_document" -> UploadNextPc("commit_document")
    [] req[w].pc = "commit_vendor" ->
         IF req[w].op = "vendor_edit" THEN "done" ELSE "record_audit"
    [] req[w].pc = "commit_contract" -> "record_audit"
    [] req[w].pc = "commit_tags" ->
         IF req[w].op = "upsert_tags" THEN "done" ELSE "commit_contract"
    [] req[w].pc = "commit_audit" -> "done"

\* where the handler continues after the block
AfterCommit(w) ==
  CASE req[w].pc = "commit_document" -> UploadNextPc("commit_document")
    [] req[w].pc \in {"commit_vendor", "commit_contract"} -> "record_audit"
    [] req[w].pc = "commit_tags" ->
         IF req[w].op = "upsert_tags" THEN "done" ELSE "commit_contract"
    [] req[w].pc = "commit_audit" -> "done"

Handlers ==
  {"document_new", "vendor_new", "vendor_edit", "contract_new", "contract_edit"}

\* the handler returns its redirect: the request has completed
Completes(w) == AfterCommit(w) = "done" /\ req[w].op \in Handlers

\* conn.commit() at the end of the block (nothing to do when the
\* connection has no open transaction)
Commit(w) ==
  /\ req[w].pc \in CommitPcs
  /\ wlock = NoConn \/ wlock[1] = w
  /\ db' = CommitTxn(db, txn)
  /\ txn' = db'
  /\ wlock' = NoConn
  /\ req' = [req EXCEPT
       ![w].pc = AfterCommit(w),
       ![w].rows = IF req[w].pc \in {"commit_document", "commit_vendor",
                                      "commit_contract"}
                   THEN @ + 1 ELSE @,
       ![w].audits = IF req[w].pc = "commit_audit" THEN @ + 1 ELSE @]
  /\ stats' = [stats EXCEPT
       !.completed = IF Completes(w) THEN @ + 1 ELSE @,
       !.uploads = IF Completes(w) /\ req[w].op = "document_new"
                   THEN [@ EXCEPT ![req[w].contract_id] = @ + 1] ELSE @]
  /\ UNCHANGED <<files, clock>>

\* -------------------------------------------------------------- exceptions

IOPcs == {"save_open", "save_write", "hash"}

SqlPcs ==
  {"insert_document", "insert_vendor", "update_vendor", "insert_contract",
   "update_contract", "upsert_delete", "upsert_loop", "record_audit"} \cup CommitPcs

\* A statement raises (I/O error, disk full, database is locked after the
\* busy timeout): the exception leaves every enclosing `with` block, which
\* rolls back, and the request fails.
Raise(w) ==
  /\ req[w].pc \in IOPcs \cup SqlPcs
  /\ req' = [req EXCEPT ![w] =
                [Idle EXCEPT !.op = req[w].op,
                             !.contract_id = req[w].contract_id,
                             !.i = req[w].i,
                             !.old = req[w].old,
                             !.rows = req[w].rows,
                             !.audits = req[w].audits,
                             !.pc = "failed",
                             !.err = IF req[w].pc \in IOPcs THEN "IOError"
                                     ELSE "OperationalError"]]
  /\ IF wlock[1] = w
     THEN /\ db' = Rollback(db, txn)
          /\ txn' = db'
          /\ wlock' = NoConn
     ELSE UNCHANGED <<db, txn, wlock>>
  /\ UNCHANGED <<files, clock, stats>>

\* the response is sent; the worker takes the next request
Return(w) ==
  /\ req[w].pc \in {"done", "failed", "rejected"}
  /\ req' = [req EXCEPT ![w] = Idle]
  /\ UNCHANGED <<db, txn, wlock, files, clock, stats>>


\* ----------------------------------------------------------------- vendors

\* POST /vendors/new
VendorNew(w) ==
  /\ MayStart(w)
  /\ \E n \in VendorNames :
       req' = [req EXCEPT ![w] =
                 [Idle EXCEPT !.op = "vendor_new", !.name = n,
                              !.pc = "insert_vendor"]]
  /\ Started(w)
  /\ UNCHANGED <<db, txn, wlock, files, clock>>

\* INSERT INTO vendors (...); vendor_id = cursor.lastrowid
InsertVendor(w) ==
  /\ req[w].pc = "insert_vendor"
  /\ CanWrite
  /\ Begin(w, "handler", [db EXCEPT !.vendors = Append(@, [name |-> req[w].name])])
  /\ req' = [req EXCEPT ![w].vendor_id = Len(db.vendors) + 1,
                        ![w].pc = "commit_vendor"]
  /\ UNCHANGED <<files, clock, stats>>

\* POST /vendors/<id>/edit up to the lookup of the vendor
VendorEdit(w) ==
  /\ MayStart(w)
  /\ \E v \in 1..(Len(db.vendors) + 1), n \in VendorNames :
       req' = [req EXCEPT ![w] =
                 IF v \in 1..Len(db.vendors)
                 THEN [Idle EXCEPT !.op = "vendor_edit", !.vendor_id = v,
                                   !.name = n, !.pc = "update_vendor"]
                 ELSE [Idle EXCEPT !.op = "vendor_edit", !.vendor_id = v,
                                   !.pc = "rejected"]]
  /\ Started(w)
  /\ UNCHANGED <<db, txn, wlock, files, clock>>

\* UPDATE vendors SET name = ? ... WHERE id = ?
UpdateVendor(w) ==
  /\ req[w].pc = "update_vendor"
  /\ CanWrite
  /\ Begin(w, "handler",
           [db EXCEPT !.vendors[req[w].vendor_id] = [name |-> req[w].name]])
  /\ req' = Goto(w, "commit_vendor")
  /\ UNCHANGED <<files, clock, stats>>

\* ------------------------------------------------------------- upsert_tags

\* Mutant of DeleteContractTags: the old associations are kept (a merge).
DeleteNothing(contract_tags, contract_id) == contract_tags

\* DELETE FROM contract_tags WHERE contract_id = ?
DeleteContractTags(contract_tags, contract_id) ==
  {x \in contract_tags : x[1] # contract_id}

\* INSERT OR IGNORE INTO tags (name) VALUES (?)
InsertOrIgnoreTag(tags, name) ==
  IF name \in Range(tags) THEN tags ELSE Append(tags, name)

\* Mutant of UpsertOne: the raw name is stored, not the stripped one.
UpsertOneUnstripped(d, contract_id, name) ==
  IF strip(name) = <<>> THEN d
  ELSE LET withTag == [d EXCEPT !.tags = InsertOrIgnoreTag(@, name)] IN
       [withTag EXCEPT !.contract_tags =
          @ \cup {<<contract_id, TagId(withTag, name)>>}]

\* one pass of the loop body of upsert_tags for the raw name
UpsertOne(d, contract_id, name) ==
  LET cleaned == strip(name) IN
  IF cleaned = <<>> THEN d
  ELSE LET withTag == [d EXCEPT !.tags = InsertOrIgnoreTag(@, cleaned)] IN
       [withTag EXCEPT !.contract_tags =
          @ \cup {<<contract_id, TagId(withTag, cleaned)>>}]

\* upsert_tags called on its own connection by a caller that holds no
\* transaction (the setTags entry point)
SetTags(w) ==
  /\ MayStart(w)
  /\ \E c \in InitContracts, names \in TagLists :
       req' = [req EXCEPT ![w] =
                 [Idle EXCEPT !.op = "upsert_tags", !.contract_id = c,
                              !.tags = names,
                              !.concurrent = OthersInFlight(w),
                              !.pc = "upsert_delete"]]
  /\ Started(w)
  /\ UNCHANGED <<db, txn, wlock, files, clock>>

\* the DELETE opens the write transaction of the connection of upsert_tags
UpsertDelete(w) ==
  /\ req[w].pc = "upsert_delete"
  /\ CanWrite
  /\ Begin(w, "upsert_tags",
           [db EXCEPT !.contract_tags = DeleteContractTags(@, req[w].contract_id)])
  /\ req' = [req EXCEPT ![w].old = get_contract_tags(db, req[w].contract_id),
                        ![w].i = 1,
                        ![w].pc = "upsert_loop"]
  /\ UNCHANGED <<files, clock, stats>>

\* for name in tag_names: ...
UpsertLoop(w) ==
  /\ req[w].pc = "upsert_loop"
  /\ wlock = NoConn \/ wlock = Conn(w, "upsert_tags")
  /\ IF req[w].i <= Len(req[w].tags)
     THEN /\ Begin(w, "upsert_tags",
                   UpsertOne(txn, req[w].contract_id, req[w].tags[req[w].i]))
          /\ req' = [req EXCEPT ![w].i = @ + 1]
     ELSE /\ UNCHANGED <<db, txn, wlock>>
          /\ req' = Goto(w, "commit_tags")
  /\ UNCHANGED <<files, clock, stats>>

\* --------------------------------------------------------------- contracts

\* tags = [tag for tag in form.get("tags", "").split(",") if tag.strip()]
FormTags(segments) == SelectSeq(segments, LAMBDA s : strip(s) # <<>>)

\* POST /contracts/new
ContractNew(w) ==
  /\ MayStart(w)
  /\ \E segments \in TagLists :
       req' = [req EXCEPT ![w] =
                 [Idle EXCEPT !.op = "contract_new",
                              !.tags = FormTags(segments),
                              !.pc = "insert_contract"]]
  /\ Started(w)
  /\ UNCHANGED <<db, txn, wlock, files, clock>>

NewContractId(d) == SetMax(DOMAIN d.contracts) + 1

\* INSERT INTO contracts (...); contract_id = cursor.lastrowid; then the call
\* of upsert_tags while this connection's transaction is open
InsertContract(w) ==
  /\ req[w].pc = "insert_contract"
  /\ CanWrite
  /\ Begin(w, "handler",
           [db EXCEPT !.contracts =
              [c \in DOMAIN @ \cup {NewContractId(db)} |->
                 IF c \in DOMAIN @ THEN @[c] ELSE [title |-> FormTitle]]])
  /\ req' = [req EXCEPT ![w].contract_id = NewContractId(db),
                        ![w].pc = "upsert_delete"]
  /\ UNCHANGED <<files, clock, stats>>

\* POST /contracts/<id>/edit up to the lookup of the contract
ContractEdit(w) ==
  /\ MayStart(w)
  /\ \E c \in ContractIdInputs, segments \in TagLists :
       req' = [req EXCEPT ![w] =
                 IF ContractExists(db, c)
                 THEN [Idle EXCEPT !.op = "contract_edit", !.contract_id = c,
                                   !.tags = FormTags(segments),
                                   !.pc = "update_contract"]
                 ELSE [Idle EXCEPT !.op = "contract_edit", !.contract_id = c,
                                   !.pc = "rejected"]]
  /\ Started(w)
  /\ UNCHANGED <<db, txn, wlock, files, clock>>

\* UPDATE contracts SET ... WHERE id = ?; then the call of upsert_tags while
\* this connection's transaction is open
UpdateContract(w) ==
  /\ req[w].pc = "update_contract"
  /\ CanWrite
  /\ Begin(w, "handler",
           [db EXCEPT !.contracts[req[w].contract_id] = [title |-> FormTitle]])
  /\ req' = Goto(w, "upsert_delete")
  /\ UNCHANGED <<files, clock, stats>>

\* ---------------------------------------------------------- audit listings

\* the rows of a SELECT on audit_events in the orders that
\* ORDER BY created_at DESC allows: rows with equal created_at come in an
\* order the statement does not determine
OrderByCreatedAtDesc(rows) ==
  {l \in [1..Cardinality(rows) -> rows] :
     /\ \A j, k \in DOMAIN l : j # k => l[j] # l[k]
     /\ \A j, k \in DOMAIN l : j < k => l[j].created_at >= l[k].created_at}

\* GET /audit
AuditLog(w) ==
  /\ MayStart(w)
  /\ \E l \in OrderByCreatedAtDesc(Range(db.audit_events)) :
       req' = [req EXCEPT ![w] =
                 [Idle EXCEPT !.op = "audit_log", !.listing = l, !.pc = "done"]]
  /\ Started(w)
  /\ UNCHANGED <<db, txn, wlock, files, clock>>

\* GET /contracts/<id>: the audit events of the contract
ContractDetail(w) ==
  /\ MayStart(w)
  /\ \E c \in ContractIdInputs :
       IF ContractExists(db, c)
       THEN \E l \in OrderByCreatedAtDesc(
                       {e \in Range(db.audit_events) : e.contract_id = c}) :
              req' = [req EXCEPT ![w] =
                        [Idle EXCEPT !.op = "contract_detail",
                                     !.contract_id = c,
                                     !.listing = l, !.pc = "done"]]
       ELSE req' = [req EXCEPT ![w] =
                      [Idle EXCEPT !.op = "contract_detail",
                                   !.contract_id = c, !.pc = "rejected"]]
  /\ Started(w)
  /\ UNCHANGED <<db, txn, wlock, files, clock>>

\* ----------------------------------------------------------- specification

Step(w) ==
  \/ DocumentNew(w) \/ ReadVersion(w) \/ SaveOpen(w) \/ SaveWrite(w)
  \/ HashFile(w) \/ InsertDocument(w)
  \/ VendorNew(w) \/ InsertVendor(w) \/ VendorEdit(w) \/ UpdateVendor(w)
  \/ SetTags(w) \/ UpsertDelete(w) \/ UpsertLoop(w)
  \/ ContractNew(w) \/ InsertContract(w) \/ ContractEdit(w) \/ UpdateContract(w)
  \/ AuditLog(w) \/ ContractDetail(w)
  \/ RecordAudit(w) \/ Commit(w) \/ Raise(w) \/ Return(w)

Next == \E w \in Workers : Step(w)

Spec == Init /\ [][Next]_vars

\* Uploads only.
UploadStep(w) ==
  \/ DocumentNew(w) \/ ReadVersion(w) \/ SaveOpen(w) \/ SaveWrite(w)
  \/ HashFile(w) \/ InsertDocument(w)
  \/ RecordAudit(w) \/ Commit(w) \/ Raise(w) \/ Return(w)

UploadNext == \E w \in Workers : UploadStep(w)

UploadSpec == InitWith(MaxUploads) /\ [][UploadNext]_vars

\* Calls of upsert_tags only.
TagStep(w) ==
  \/ SetTags(w) \/ UpsertDelete(w) \/ UpsertLoop(w)
  \/ Commit(w) \/ Raise(w) \/ Return(w)

TagNext == \E w \in Workers : TagStep(w)

TagSpec == InitWith(MaxTagCalls) /\ [][TagNext]_vars

\* Uploads only, and no two uploads to the same contract overlap.
NoOverlap ==
  \A w, v \in Workers :
    (w # v /\ InFlight(w) /\ InFlight(v)
       /\ req[w].op = "document_new" /\ req[v].op = "document_new")
    => req[w].contract_id # req[v].contract_id

SeqDocumentNew(w) == DocumentNew(w) /\ NoOverlap'

SeqUploadStep(w) ==
  \/ SeqDocumentNew(w) \/ ReadVersion(w) \/ SaveOpen(w) \/ SaveWrite(w)
  \/ HashFile(w) \/ InsertDocument(w)
  \/ RecordAudit(w) \/ Commit(w) \/ Raise(w) \/ Return(w)

SeqUploadNext == \E w \in Workers : SeqUploadStep(w)

SeqUploadSpec == InitWith(MaxUploads) /\ [][SeqUploadNext]_vars

\* Uploads and audit listings.
ListStep(w) ==
  \/ UploadStep(w) \/ AuditLog(w) \/ ContractDetail(w)

ListNext == \E w \in Workers : ListStep(w)

ListSpec == InitWith(MaxListRequests) /\ [][ListNext]_vars

\* ------------------------------------------------------------------ claims

UploadInFlight(c) ==
  \E w \in Workers :
    InFlight(w) /\ req[w].op = "document_new" /\ req[w].contract_id = c

Finished(w) == req[w].pc \in {"done", "failed"}

\* C1: no state holds two Document rows with the same contract_id and the
\* same version, however the uploads to a contract interleave.
C1_NoDuplicateVersion ==
  \A j, k \in 1..Len(db.documents) :
    (j # k /\ db.documents[j].contract_id = db.documents[k].contract_id)
    => db.documents[j].version # db.documents[k].version

\* C2: when the uploads to a contract run one after another, then whenever
\* none of them is running the versions of the contract's Document rows are
\* exactly 1..N, N the number of uploads to the contract that have completed.
C2_SequentialVersions ==
  \A c \in InitContracts :
    ~UploadInFlight(c) => VersionsOf(db, c) = 1..stats.uploads[c]

\* C3: the sha256 recorded in every Document row is the digest of the bytes
\* that the upload directory holds under the row's storage name.
C3_HashMatchesStoredBytes ==
  \A k \in 1..Len(db.documents) :
    /\ db.documents[k].storage_path \in DOMAIN files
    /\ db.documents[k].sha256 = sha256(files[db.documents[k].storage_path])

\* C4: once a request is no longer running (completed or failed at any
\* step), its business row and its audit event are both committed or
\* neither is.
C4_MutationAndAuditAtomic ==
  \A w \in Workers :
    (Finished(w) /\ req[w].op \in Handlers) => req[w].rows = req[w].audits

\* Sequential uploads leave the versions of a contract without gap or
\* duplicate: they are 1..M, M the number of the contract's Document rows.
SequentialVersionsGapless ==
  \A c \in InitContracts :
    VersionsOf(db, c) = 1..Cardinality(DocsOf(db, c))

\* C5: a handler request that has completed has committed exactly one audit
\* event, so the audit log holds at least as many events as handler
\* requests have completed.
C5_CompletedRequestAudited ==
  /\ \A w \in Workers :
       (req[w].pc = "done" /\ req[w].op \in Handlers) => req[w].audits = 1
  /\ stats.completed <= Len(db.audit_events)

C5_Witness ==
  /\ stats.completed = 2
  /\ Len(db.audit_events) = 2
  /\ \E w \in Workers : req[w].pc = "done" /\ req[w].op = "vendor_edit"
  /\ \E k \in 1..Len(db.audit_events) :
       db.audit_events[k].action = "Uploaded document"

\* C6: the audit log is append-only: no step removes an audit event or
\* changes any field of one.
C6_AuditAppendOnly ==
  [][/\ Len(db'.audit_events) >= Len(db.audit_events)
     /\ \A k \in 1..Len(db.audit_events) :
          db'.audit_events[k] = db.audit_events[k]]_vars

C6_Witness ==
  /\ Len(db.audit_events) = 2
  /\ db.audit_events[1].action # db.audit_events[2].action
  /\ db.audit_events[1].created_at # db.audit_events[2].created_at

\* { strip(t) : t in names, strip(t) not empty }
Normalized(names) == {strip(names[k]) : k \in 1..Len(names)} \ {<<>>}

OtherAssociations(d, c) == {x \in d.contract_tags : x[1] # c}

\* C7: when upsert_tags(c, names) commits, c is associated with exactly the
\* normalized names, the associations of the other contracts are unchanged
\* and every tag of the vocabulary is still in it under its id.
C7_FullReplacement ==
  [][\A w \in Workers :
       (req[w].op = "upsert_tags" /\ req[w].pc = "commit_tags"
          /\ req'[w].pc = "done")
       => /\ get_contract_tags(db', req[w].contract_id) = Normalized(req[w].tags)
          /\ OtherAssociations(db', req[w].contract_id)
               = OtherAssociations(db, req[w].contract_id)
          /\ Len(db'.tags) >= Len(db.tags)
          /\ \A t \in 1..Len(db.tags) : db'.tags[t] = db.tags[t]]_vars

C7_Witness ==
  \E w \in Workers :
    /\ req[w].op = "upsert_tags" /\ req[w].pc = "done"
    /\ req[w].old \ Normalized(req[w].tags) # {}
    /\ get_contract_tags(db, req[w].contract_id) = Normalized(req[w].tags)
    /\ OtherAssociations(db, req[w].contract_id) # {}

\* C8: when two calls of upsert_tags for the same contract have both
\* completed, the contract's tags are exactly the normalized list of one of
\* the two.
C8_LastWriterWins ==
  \A w, v \in Workers :
    (/\ w # v
     /\ req[w].op = "upsert_tags" /\ req[w].pc = "done"
     /\ req[v].op = "upsert_tags" /\ req[v].pc = "done"
     /\ req[w].contract_id = req[v].contract_id)
    => get_contract_tags(db, req[w].contract_id)
         \in {Normalized(req[w].tags), Normalized(req[v].tags)}

\* the only two calls of the behaviour overlapped, with different lists
C8_Witness ==
  /\ stats.budget = MaxTagCalls - 2
  /\ \E w, v \in Workers :
       /\ w # v
       /\ req[w].op = "upsert_tags" /\ req[w].pc = "done"
       /\ req[v].op = "upsert_tags" /\ req[v].pc = "done"
       /\ req[w].contract_id = req[v].contract_id
       /\ req[v].concurrent
       /\ Normalized(req[w].tags) \cap Normalized(req[v].tags) = {}
       /\ get_contract_tags(db, req[w].contract_id) = Normalized(req[w].tags)

\* C9: from the DELETE of upsert_tags on, the committed tags of the contract
\* are those it had before, and they still are when the call fails.
C9_FailedReplacementKeepsOldTags ==
  [][\A w \in Workers :
       (req[w].op = "upsert_tags" /\ req[w].pc \in {"upsert_loop", "commit_tags"})
       => /\ get_contract_tags(db, req[w].contract_id) = req[w].old
          /\ req'[w].pc = "failed"
             => /\ get_contract_tags(db', req[w].contract_id) = req[w].old
                /\ db'.contract_tags = db.contract_tags]_vars

C9_Witness ==
  \E w \in Workers :
    /\ req[w].op = "upsert_tags" /\ req[w].pc = "failed"
    /\ req[w].i >= 2
    /\ req[w].old # {}
    /\ get_contract_tags(db, req[w].contract_id) = req[w].old

\* C10: an upload that fails while the file is written or read back has
\* committed no Document row and no audit event, and the failing step
\* leaves the tables as they were.
C10_IOErrorWritesNothing ==
  [][\A w \in Workers :
       (req[w].pc # "failed" /\ req'[w].pc = "failed" /\ req'[w].err = "IOError")
       => /\ req[w].pc \in IOPcs
          /\ req'[w].rows = 0 /\ req'[w].audits = 0
          /\ db' = db]_vars

C10_Witness ==
  \E w \in Workers :
    /\ req[w].op = "document_new" /\ req[w].pc = "failed"
    /\ req[w].err = "IOError"
    /\ req[w].rows = 0 /\ req[w].audits = 0
    /\ DocsOf(db, req[w].contract_id) # {}
    /\ Len(db.audit_events) = 1

\* C11: every Document row (committed or written by an open transaction)
\* belongs to an existing contract; an upload for a contract id that does
\* not exist is rejected at once, and then and later writes no table and no
\* file; no step removes a contract.
C11_DocumentsReferenceContracts ==
  /\ [](/\ \A k \in 1..Len(db.documents) :
             db.documents[k].contract_id \in DOMAIN db.contracts
        /\ \A k \in 1..Len(txn.documents) :
             txn.documents[k].contract_id \in DOMAIN db.contracts
        /\ \A n \in DOMAIN files : n[1] \in DOMAIN db.contracts
        /\ \A k \in 1..Len(db.audit_events) :
             db.audit_events[k].action = "Uploaded document"
             => db.audit_events[k].contract_id \in DOMAIN db.contracts
        /\ \A w \in Workers :
             (InFlight(w) /\ req[w].op = "document_new")
             => req[w].contract_id \in DOMAIN db.contracts)
  /\ [][/\ DOMAIN db.contracts \subseteq DOMAIN db'.contracts
        /\ \A w \in Workers :
             (/\ req'[w].op = "document_new"
              /\ req'[w].contract_id \notin DOMAIN db.contracts
              /\ req'[w] # req[w])
             => /\ req[w].pc = "idle" /\ req'[w].pc = "rejected"
                /\ db' = db /\ txn' = txn /\ files' = files]_vars

C11_Witness ==
  /\ \E w \in Workers :
       /\ req[w].op = "document_new" /\ req[w].pc = "rejected"
       /\ req[w].contract_id \notin DOMAIN db.contracts
  /\ Len(db.documents) = 1
  /\ Len(db.audit_events) = 1
  /\ DOMAIN files # {}

\* C12: an upload never inserts a Document row whose (contract_id, version)
\* is already recorded: when another upload took the version it read, the
\* insert is done with a recomputed version or the upload fails.
C12_CollidingInsertRetried ==
  [][\A w \in Workers :
       (/\ req[w].op = "document_new"
        /\ req[w].pc = "insert_document"
        /\ req'[w].pc = "commit_document")
       => txn'.documents[Len(txn'.documents)].version
            \notin VersionsOf(db, req[w].contract_id)]_vars

\* C13: the names a committed call of upsert_tags leaves on the contract
\* are the stripped non-empty names of its list: none is empty or has
\* surrounding whitespace, names equal after stripping give one association,
\* names that differ in case give two.
C13_TagNormalization ==
  [][\A w \in Workers :
       (req[w].op = "upsert_tags" /\ req[w].pc = "commit_tags"
          /\ req'[w].pc = "done")
       => LET c == req[w].contract_id
              names == get_contract_tags(db', c)
              assoc == {x \in db'.contract_tags : x[1] = c}
          IN /\ \A k \in 1..Len(req[w].tags) :
                  LET t == req[w].tags[k] IN
                  \/ \A j \in 1..Len(t) : t[j] \in Whitespace
                  \/ \E n \in names, a, b \in 0..Len(t) :
                       /\ a + Len(n) + b = Len(t)
                       /\ \A j \in 1..Len(t) :
                            IF j <= a \/ j > a + Len(n)
                            THEN t[j] \in Whitespace
                            ELSE t[j] = n[j - a]
             /\ \A n \in names :
                  /\ n # <<>>
                  /\ Head(n) \notin Whitespace
                  /\ n[Len(n)] \notin Whitespace
                  /\ \E k \in 1..Len(req[w].tags) : strip(req[w].tags[k]) = n
             /\ Cardinality(assoc) = Cardinality(names)
             /\ \A x \in assoc : x[2] \in 1..Len(db'.tags)]_vars

C13_Witness ==
  \E w \in Workers :
    /\ req[w].op = "upsert_tags" /\ req[w].pc = "done"
    /\ Len(req[w].tags) = 4
    /\ get_contract_tags(db, req[w].contract_id) = { <<"a">>, <<"A">> }
    /\ Cardinality({x \in db.contract_tags : x[1] = req[w].contract_id}) = 2

\* the step is one of worker w
Acts(w) == req'[w] # req[w]

\* C14: an upload writes its file only before it has hashed, hashes only a
\* file it has written and before it inserts, inserts its Document row only
\* with the hash taken, and writes its audit event only when the row is
\* committed.
C14_UploadStepsInOrder ==
  [][\A w \in Workers :
       (req[w].op = "document_new" /\ Acts(w))
       => /\ files' # files
             => /\ req[w].pc \in {"save_open", "save_write"}
                /\ req[w].sha256 = 0
                /\ req[w].rows = 0 /\ req[w].audits = 0
          /\ (req'[w].sha256 # req[w].sha256 /\ req'[w].sha256 # 0)
             => /\ req[w].pc = "hash"
                /\ StorageName(w) \in DOMAIN files
                /\ req[w].rows = 0 /\ req[w].audits = 0
          /\ Len(txn'.documents) > Len(txn.documents)
             => /\ req[w].pc = "insert_document"
                /\ req[w].sha256 # 0
                /\ StorageName(w) \in DOMAIN files
                /\ txn'.documents[Len(txn'.documents)].sha256 = req[w].sha256
                /\ req[w].audits = 0
          /\ Len(db'.documents) > Len(db.documents)
             => /\ req[w].pc = "commit_document"
                /\ db'.audit_events = db.audit_events
                /\ req[w].audits = 0
          /\ Len(txn'.audit_events) > Len(txn.audit_events)
             => /\ req[w].pc = "record_audit"
                /\ req[w].rows = 1
                /\ \E k \in DocsOf(db, req[w].contract_id) :
                     db.documents[k].storage_path = StorageName(w)]_vars

C14_Witness ==
  \E w \in Workers :
    /\ req[w].op = "document_new" /\ req[w].pc = "done"
    /\ req[w].rows = 1 /\ req[w].audits = 1
    /\ req[w].sha256 = sha256(req[w].data)
    /\ files[StorageName(w)] = req[w].data

\* C15: a contract create or edit never waits for the write lock (at the
\* DELETE of upsert_tags) while its own handler connection holds that lock.
C15_NoWaitForOwnLock ==
  \A w \in Workers :
    ~(/\ req[w].op \in {"contract_new", "contract_edit"}
      /\ req[w].pc = "upsert_delete"
      /\ wlock = Conn(w, "handler"))

\* C16: distinct Document rows have distinct storage names, and no upload
\* is writing a file that a Document row references.
C16_DistinctStorageNames ==
  /\ \A j, k \in 1..Len(db.documents) :
       j # k => db.documents[j].storage_path # db.documents[k].storage_path
  /\ \A w \in Workers :
       (req[w].op = "document_new" /\ req[w].pc = "save_write")
       => \A k \in 1..Len(db.documents) :
            db.documents[k].storage_path # StorageName(w)

\* C17: every audit event, committed or written by an open transaction,
\* describes a row that is committed, and no handler request has more audit
\* events than committed business rows.
C17_NoPhantomAuditEvent ==
  /\ \A k \in 1..Len(txn.audit_events) :
       LET e == txn.audit_events[k] IN
       /\ e.action = "Uploaded document"
          => \E j \in 1..Len(db.documents) :
               /\ db.documents[j].contract_id = e.contract_id
               /\ db.documents[j].filename = e.details.name
               /\ db.documents[j].version = e.details.n
       /\ e.action \in {"Created vendor", "Updated vendor"}
          => e.details.n \in 1..Len(db.vendors)
       /\ e.action \in {"Created contract", "Updated contract"}
          => e.contract_id \in DOMAIN db.contracts
  /\ \A w \in Workers :
       req[w].op \in Handlers
       => /\ req[w].audits <= req[w].rows
          /\ req[w].pc = "commit_audit" => req[w].rows = 1

C17_Witness ==
  /\ \E k \in 1..Len(db.audit_events) :
       /\ db.audit_events[k].action = "Created vendor"
       /\ db.audit_events[k].details.n = Len(db.vendors)
  /\ \E w \in Workers :
       /\ req[w].op = "document_new" /\ req[w].pc = "failed"
       /\ req[w].err = "OperationalError"
       /\ req[w].rows = 0 /\ req[w].audits = 0

\* C18: every audit listing is in descending order of created_at, and of
\* two events with the same created_at the one with the larger id is first.
C18_ListingNewestFirst ==
  \A w \in Workers :
    (req[w].op \in {"audit_log", "contract_detail"} /\ req[w].pc = "done")
    => \A j, k \in 1..Len(req[w].listing) :
         j < k
         => \/ req[w].listing[j].created_at > req[w].listing[k].created_at
            \/ /\ req[w].listing[j].created_at = req[w].listing[k].created_at
               /\ req[w].listing[j].id > req[w].listing[k].id

====
